---------------------------- MODULE Spec2Model ----------------------------
(***************************************************************************)
(* Model of the argument binder of clime's draft CLI, CLI.load in          *)
(* draft/cli/index.ts: the token loop, consumeFlags, consumeToggleOrOption,*)
(* consumeOption, consumeArgument, castArgument and the completeness       *)
(* checks before command.execute.                                          *)
(*                                                                         *)
(* A token is a sequence of one-character strings, so that arg[0], arg[1], *)
(* substr and the help regular expression are computed on the characters,  *)
(* as the code does.  The alphabet of the model is letters, digits, "-"    *)
(* and "?".                                                                *)
(***************************************************************************)
EXTENDS Integers, Sequences, FiniteSets, TLC

\* ------------------------------------------------------------------ bounds
\* Longest argv tail (argv.slice(argsIndex)) the model enumerates.
MaxTail == 3

\* Longest argv tail of the runs that exercise castArgument.
MaxCastTail == 3

\* Longest list of tokens after argv's two leading entries.
MaxArgv == 3

\* ------------------------------------------------------------ JS values
\* A JavaScript value: string, number, NaN, boolean or undefined.  One record
\* shape, so that any two values compare.
StrV(s) == [t |-> "string", s |-> s, n |-> 0, b |-> FALSE]
NumV(n) == [t |-> "number", s |-> <<>>, n |-> n, b |-> FALSE]
BoolV(b) == [t |-> "boolean", s |-> <<>>, n |-> 0, b |-> b]
NaNV == [t |-> "NaN", s |-> <<>>, n |-> 0, b |-> FALSE]
UndefinedV == [t |-> "undefined", s |-> <<>>, n |-> 0, b |-> FALSE]

\* The `type` of a definition: the constructors String, Number, Boolean, or
\* none of them.
TypeString == "String"
TypeNumber == "Number"
TypeBoolean == "Boolean"
TypeNone == "none"

\* ------------------------------------------------------------ characters
Digits == <<"0", "1", "2", "3", "4", "5", "6", "7", "8", "9">>
UpperCase == <<"A", "B", "C", "D", "E", "F", "G", "H", "I", "J", "K", "L", "M",
               "N", "O", "P", "Q", "R", "S", "T", "U", "V", "W", "X", "Y", "Z">>
LowerCase == <<"a", "b", "c", "d", "e", "f", "g", "h", "i", "j", "k", "l", "m",
               "n", "o", "p", "q", "r", "s", "t", "u", "v", "w", "x", "y", "z">>

IsDigit(c) == \E i \in 1..Len(Digits) : Digits[i] = c
DigitValue(c) == (CHOOSE i \in 1..Len(Digits) : Digits[i] = c) - 1

\* String.prototype.toLowerCase on one character, then on a token.
LowerChar(c) ==
    IF \E i \in 1..Len(UpperCase) : UpperCase[i] = c
    THEN LowerCase[CHOOSE i \in 1..Len(UpperCase) : UpperCase[i] = c]
    ELSE c
toLowerCase(arg) == [i \in 1..Len(arg) |-> LowerChar(arg[i])]

RECURSIVE DecimalValue(_)
DecimalValue(arg) ==
    IF arg = <<>> THEN 0
    ELSE 10 * DecimalValue(SubSeq(arg, 1, Len(arg) - 1)) + DigitValue(arg[Len(arg)])

\* Number(arg) on the tokens of the model, which are made of letters, decimal
\* digits and "-" and hold no sign, point, exponent, radix prefix, blank or
\* "Infinity": the empty string is 0, a string of decimal digits is its
\* value, anything else is NaN.
ToNumber(arg) ==
    IF \A i \in 1..Len(arg) : IsDigit(arg[i])
    THEN NumV(DecimalValue(arg))
    ELSE NaNV

\* Mutant: "false" is compared without lowering the case.
castArgument_CaseSensitive(arg, type) ==
    CASE type = TypeString -> StrV(arg)
      [] type = TypeNumber -> ToNumber(arg)
      [] type = TypeBoolean ->
            IF arg = <<"f", "a", "l", "s", "e">>
            THEN BoolV(FALSE)
            ELSE LET n == ToNumber(arg)
                 IN  IF n.t = "NaN" THEN BoolV(TRUE) ELSE BoolV(n.n # 0)
      [] OTHER -> UndefinedV

\* castArgument(arg, type)
castArgument(arg, type) ==
    CASE type = TypeString -> StrV(arg)
      [] type = TypeNumber -> ToNumber(arg)
      [] type = TypeBoolean ->
            IF toLowerCase(arg) = <<"f", "a", "l", "s", "e">>
            THEN BoolV(FALSE)
            ELSE LET n == ToNumber(arg)
                 IN  IF n.t = "NaN" THEN BoolV(TRUE) ELSE BoolV(n.n # 0)
      [] OTHER -> UndefinedV


\* -------------------------------------------------------------- tokens
\* The model's argv tokens, written character by character.
TokHelp == <<"-", "-", "h", "e", "l", "p">>
TokH == <<"-", "h">>
TokForce == <<"-", "-", "f", "o", "r", "c", "e">>
TokOut == <<"-", "-", "o", "u", "t">>
TokF == <<"-", "f">>
TokFV == <<"-", "f", "v">>
TokFO == <<"-", "f", "o">>
TokOF == <<"-", "o", "f">>
TokXO == <<"-", "x", "o">>
TokWidget == <<"w", "i", "d", "g", "e", "t">>

Tokens == {TokHelp, TokH, TokForce, TokOut, TokF, TokFV, TokFO, TokOF, TokXO,
           TokWidget}

\* Every argv tail of at most MaxTail tokens.
Tails == UNION {[1..n -> Tokens] : n \in 0..MaxTail}

\* ------------------------------------------------- command definitions
NameForce == <<"f", "o", "r", "c", "e">>
NameVerbose == <<"v", "e", "r", "b", "o", "s", "e">>
NameOut == <<"o", "u", "t">>
NoFlag == ""

\* An OptionDefinition: { name, flag, required, toggle, default, type }.
OptionDef(name, flag, required, toggle, default, type) ==
    [name |-> name, flag |-> flag, required |-> required, toggle |-> toggle,
     default |-> default, type |-> type]

\* The declared default of the value option, one per type.
DefaultOf(type) ==
    CASE type = TypeString -> StrV(<<"d">>)
      [] type = TypeNumber -> NumV(7)
      [] type = TypeBoolean -> BoolV(FALSE)
      [] OTHER -> UndefinedV

Types == {TypeString, TypeNumber, TypeBoolean, TypeNone}

\* The (force.required, out.required, out.type) combinations of the model:
\* every required-ness with a String value, every type with nothing
\* required, and the test fixture's `required: true, default: false`.
OptionVariants ==
    {<<r1, r2, TypeString>> : r1 \in BOOLEAN, r2 \in BOOLEAN}
    \cup {<<FALSE, FALSE, t>> : t \in Types}
    \cup {<<TRUE, TRUE, TypeBoolean>>}

\* command.optionDefinitions of the commands of the model; hasOptions is
\* FALSE for a command that declares none (optionDefinitions is undefined).
OptionLists ==
    {[hasOptions |-> FALSE, defs |-> <<>>]}
    \cup
    {[hasOptions |-> TRUE,
      defs |-> <<OptionDef(NameForce, "f", r, TRUE, UndefinedV, TypeBoolean),
                 OptionDef(NameVerbose, NoFlag, FALSE, TRUE, UndefinedV, TypeBoolean)>>]
        : r \in BOOLEAN}
    \cup
    {[hasOptions |-> TRUE,
      defs |-> <<OptionDef(NameForce, "f", v[1], TRUE, UndefinedV, TypeBoolean),
                 OptionDef(NameVerbose, "v", FALSE, TRUE, UndefinedV, TypeBoolean),
                 OptionDef(NameOut, "o", v[2], FALSE, DefaultOf(v[3]), v[3])>>]
        : v \in OptionVariants}

\* A ParamDefinition: { name, type, default }; hasDefault is FALSE when no
\* default is declared (definition.default is then undefined).
ParamDef(name, type, hasDefault, default) ==
    [name |-> name, type |-> type, hasDefault |-> hasDefault, default |-> default]

ParamName == ParamDef("name", TypeString, FALSE, UndefinedV)
ParamCount == ParamDef("count", TypeNumber, TRUE, NumV(1))
ParamDry == ParamDef("dry", TypeBoolean, TRUE, BoolV(TRUE))

\* command.paramDefinitions of the commands of the model.
ParamLists == {<<>>, <<ParamCount>>, <<ParamName, ParamCount>>, <<ParamDry, ParamName>>}

\* command.requiredParamsNumber: the number of parameters without a
\* declared default.
RequiredParamsNumber(params) ==
    Cardinality({i \in 1..Len(params) : ~params[i].hasDefault})

Commands ==
    {[hasOptions |-> o.hasOptions, optionDefinitions |-> o.defs,
      paramDefinitions |-> p, requiredParamsNumber |-> RequiredParamsNumber(p)]
        : o \in OptionLists, p \in ParamLists}

\* The command sequence CLI.parse hands to load: the entry name, then the
\* command names it consumed.
CommandSequences == {<<"clime", "create">>}
Cwd == "/work"

\* ---------------------------------------------------------------- state
VARIABLES
    command,                \* the instantiated command (its definitions)
    commandSequence,        \* load's commandSequence argument
    tail,                   \* load's args argument as it was passed
    args,                   \* the token queue (args, mutated by shift)
    commandArgs,            \* bound positional values
    commandExtraArgs,       \* overflow positional tokens
    commandOptions,         \* the options record, name -> value
    requiredOptionMap,      \* names of the pending required options, in key order
    pendingParamDefinitions,\* parameters not yet filled
    pc,                     \* "loop" while load runs, "done" once it returned or threw
    error,                  \* the Error thrown, NoError if none
    helpCalls,              \* arguments of each command.help call
    executeCalls,           \* arguments of each command.execute call
    iterations,             \* iterations of `while (args.length)` run so far
    fs,                     \* the files and directories under root that exist
    argv,                   \* parse's argv, its two leading entries included
    parseIndex,             \* parse's loop variable i (counted from 0)
    searchPath,             \* parse's searchPath, as the names below root
    filename,               \* parse's filename, as the names below root (without .js)
    argsIndex               \* parse's argsIndex (counted from 0)

\* The variables of parse.
parseVars == <<fs, argv, parseIndex, searchPath, filename, argsIndex>>

vars == <<command, commandSequence, tail, args, commandArgs, commandExtraArgs,
          commandOptions, requiredOptionMap, pendingParamDefinitions, pc, error,
          helpCalls, executeCalls, iterations, fs, argv, parseIndex, searchPath,
          filename, argsIndex>>

\* load called on its own: the variables of parse play no part.
ParseIdle ==
    /\ fs = {} /\ argv = <<>> /\ parseIndex = 0
    /\ searchPath = <<>> /\ filename = <<>> /\ argsIndex = 0

\* -------------------------------------------------------------- errors
NoError == [kind |-> "none", names |-> <<>>, expecting |-> 0, got |-> 0]
Err(kind) == [kind |-> kind, names |-> <<>>, expecting |-> 0, got |-> 0]

\* `Expecting ${expecting} or more parameters but got ${got} instead`
InsufficientPositionalArguments(expecting, got) ==
    [kind |-> "InsufficientPositionalArguments", names |-> <<>>,
     expecting |-> expecting, got |-> got]

\* `Missing required option(s) ...`, with the names joined in key order
MissingRequiredOptions(names) ==
    [kind |-> "MissingRequiredOptions", names |-> names, expecting |-> 0, got |-> 0]

\* ------------------------------------------ initialisation of the tables
\* The loop over optionDefinitions, definition i onwards; acc holds the four
\* tables built so far.
\* Variant: a declared default satisfies a required option.
IsPendingAtStart_UnlessDefault(definition) ==
    definition.required /\ definition.default = UndefinedV

\* if (required): the option is entered into requiredOptionMap.
IsPendingAtStart(definition) == definition.required

RECURSIVE InitOptionTables(_, _, _)
InitOptionTables(defs, i, acc) ==
    IF i > Len(defs) THEN acc
    ELSE LET definition == defs[i]
             name == definition.name
         IN  InitOptionTables(defs, i + 1,
               [optionDefinitionMap |-> (name :> definition) @@ acc.optionDefinitionMap,
                flagToNameMapping |->
                    IF definition.flag # NoFlag
                    THEN (definition.flag :> name) @@ acc.flagToNameMapping
                    ELSE acc.flagToNameMapping,
                requiredOptionMap |->
                    IF IsPendingAtStart(definition)
                       /\ ~\E k \in 1..Len(acc.requiredOptionMap) :
                               acc.requiredOptionMap[k] = name
                    THEN Append(acc.requiredOptionMap, name)
                    ELSE acc.requiredOptionMap,
                commandOptions |->
                    (name :> (IF definition.toggle THEN BoolV(FALSE)
                              ELSE definition.default)) @@ acc.commandOptions])

EmptyTables ==
    [optionDefinitionMap |-> <<>>, flagToNameMapping |-> <<>>,
     requiredOptionMap |-> <<>>, commandOptions |-> <<>>]

OptionTables(cmd) == InitOptionTables(cmd.optionDefinitions, 1, EmptyTables)

optionDefinitionMap == OptionTables(command).optionDefinitionMap
flagToNameMapping == OptionTables(command).flagToNameMapping

\* The state after the set-up part of load, for any command and argv tail.
Init ==
    /\ command \in Commands
    /\ commandSequence \in CommandSequences
    /\ tail \in Tails
    /\ args = tail
    /\ commandArgs = <<>>
    /\ commandExtraArgs = <<>>
    /\ commandOptions = OptionTables(command).commandOptions
    /\ requiredOptionMap = OptionTables(command).requiredOptionMap
    /\ pendingParamDefinitions = command.paramDefinitions
    /\ pc = "loop"
    /\ error = NoError
    /\ helpCalls = <<>>
    /\ executeCalls = <<>>
    /\ iterations = 0
    /\ ParseIdle

\* ------------------------------------------------------ the consumers
\* The variables the option consumers read and write, as one record; error
\* is set when the consumer throws, with the effects it had before.
BinderState ==
    [args |-> args, commandOptions |-> commandOptions,
     requiredOptionMap |-> requiredOptionMap, error |-> error]

\* delete requiredOptionMap[name]
DeleteKey(keys, name) == SelectSeq(keys, LAMBDA k : k # name)

\* Mutant: the value is read from the head of the queue but not removed.
consumeOption_Peek(name, definition, st) ==
    IF st.args = <<>>
    THEN [st EXCEPT !.error = Err("MissingOptionValue")]
    ELSE LET arg == Head(st.args)
         IN  IF arg # <<>> /\ arg[1] = "-"
             THEN [st EXCEPT !.error = Err("OptionValueLooksLikeOption")]
             ELSE [st EXCEPT
                      !.commandOptions =
                          (name :> castArgument(arg, definition.type)) @@ @]

\* Mutant: a value that starts with "-" is accepted.
consumeOption_AnyValue(name, definition, st) ==
    IF st.args = <<>>
    THEN [st EXCEPT !.error = Err("MissingOptionValue")]
    ELSE [st EXCEPT
             !.args = Tail(st.args),
             !.commandOptions =
                 (name :> castArgument(Head(st.args), definition.type)) @@ @]

\* Mutant: the value is stored as the token, without coercion.
consumeOption_Raw(name, definition, st) ==
    IF st.args = <<>>
    THEN [st EXCEPT !.error = Err("MissingOptionValue")]
    ELSE LET arg == Head(st.args)
             shifted == [st EXCEPT !.args = Tail(st.args)]
         IN  IF arg # <<>> /\ arg[1] = "-"
             THEN [shifted EXCEPT !.error = Err("OptionValueLooksLikeOption")]
             ELSE [shifted EXCEPT !.commandOptions = (name :> StrV(arg)) @@ @]

\* consumeOption(name, definition)
consumeOption(name, definition, st) ==
    IF st.args = <<>>
    THEN [st EXCEPT !.error = Err("MissingOptionValue")]
    ELSE LET arg == Head(st.args)
             shifted == [st EXCEPT !.args = Tail(st.args)]
         IN  IF arg # <<>> /\ arg[1] = "-"
             THEN [shifted EXCEPT !.error = Err("OptionValueLooksLikeOption")]
             ELSE [shifted EXCEPT
                      !.commandOptions =
                          (name :> castArgument(arg, definition.type)) @@ @]

\* Mutant: a referenced required option stays pending.
SatisfyRequired_Keep(name, definition, st) == st

\* if (definition.required) { delete requiredOptionMap[name]; }
SatisfyRequired(name, definition, st) ==
    IF definition.required
    THEN [st EXCEPT !.requiredOptionMap = DeleteKey(@, name)]
    ELSE st

\* Mutant: the toggle is not set.
SetToggle_Skip(name, st) == st

\* commandOptions[name] = true
SetToggle(name, st) ==
    [st EXCEPT !.commandOptions = (name :> BoolV(TRUE)) @@ @]

\* consumeToggleOrOption(name).  With no option definitions
\* optionDefinitionMap is undefined and the hasOwnProperty call throws a
\* TypeError.
consumeToggleOrOption(name, st) ==
    IF ~command.hasOptions
    THEN [st EXCEPT !.error = Err("TypeError")]
    ELSE IF name \notin DOMAIN optionDefinitionMap
    THEN [st EXCEPT !.error = Err("UnknownOptionName")]
    ELSE LET definition == optionDefinitionMap[name]
             st1 == SatisfyRequired(name, definition, st)
         IN  IF definition.toggle
             THEN SetToggle(name, st1)
             ELSE consumeOption(name, definition, st1)

\* consumeFlags(flags), from character i on (1-based).
RECURSIVE consumeFlagsFrom(_, _, _)
consumeFlagsFrom(flags, i, st) ==
    IF i > Len(flags) THEN st
    ELSE LET flag == flags[i] IN
         IF ~command.hasOptions \/ flag \notin DOMAIN flagToNameMapping
         THEN [st EXCEPT !.error = Err("UnknownOptionFlag")]
         ELSE LET name == flagToNameMapping[flag]
                  definition == optionDefinitionMap[name]
                  st1 == SatisfyRequired(name, definition, st)
              IN  IF definition.toggle
                  THEN consumeFlagsFrom(flags, i + 1, SetToggle(name, st1))
                  ELSE IF i # Len(flags)
                  THEN [st1 EXCEPT !.error = Err("NonTerminalFlagTakesValue")]
                  ELSE LET st2 == consumeOption(name, definition, st1)
                       IN  IF st2.error = NoError
                           THEN consumeFlagsFrom(flags, i + 1, st2)
                           ELSE st2

consumeFlags(flags, st) == consumeFlagsFrom(flags, 1, st)

\* Mutant: only the long form asks for help.
IsHelp_LongOnly(arg) == arg = <<"-", "-", "h", "e", "l", "p">>

\* /^(?:-[h?]|--help)$/.test(arg)
IsHelp(arg) ==
    \/ Len(arg) = 2 /\ arg[1] = "-" /\ arg[2] \in {"h", "?"}
    \/ arg = <<"-", "-", "h", "e", "l", "p">>

\* arg[0] === '-' and arg[1] === '-'
IsOption(arg) == arg # <<>> /\ arg[1] = "-"
IsLongOption(arg) == IsOption(arg) /\ Len(arg) >= 2 /\ arg[2] = "-"

\* arg.substr(n), n counted from 0
substr(arg, n) == SubSeq(arg, n + 1, Len(arg))

\* The binder state after a consumer returned or threw; a throw ends load.
Commit(st) ==
    /\ args' = st.args
    /\ commandOptions' = st.commandOptions
    /\ requiredOptionMap' = st.requiredOptionMap
    /\ error' = st.error
    /\ pc' = IF st.error = NoError THEN "loop" ELSE "done"

\* ------------------------------------------------------------- actions
\* Mutant: the help branch lacks its return and the loop goes on.
Help_NoReturn ==
    /\ pc = "loop" /\ args # <<>>
    /\ iterations' = iterations + 1
    /\ UNCHANGED parseVars
    /\ IsHelp(Head(args))
    /\ args' = Tail(args)
    /\ helpCalls' = Append(helpCalls, commandSequence)
    /\ UNCHANGED <<command, commandSequence, tail, commandArgs, commandExtraArgs,
                   commandOptions, requiredOptionMap, pendingParamDefinitions,
                   pc, error, executeCalls>>

\* One iteration of `while (args.length)` whose token is a help request:
\* command.help(commandSequence); return.
Help ==
    /\ pc = "loop" /\ args # <<>>
    /\ iterations' = iterations + 1
    /\ UNCHANGED parseVars
    /\ IsHelp(Head(args))
    /\ args' = Tail(args)
    /\ helpCalls' = Append(helpCalls, commandSequence)
    /\ pc' = "done"
    /\ UNCHANGED <<command, commandSequence, tail, commandArgs, commandExtraArgs,
                   commandOptions, requiredOptionMap, pendingParamDefinitions,
                   error, executeCalls>>

\* One iteration whose token starts with "--".
LongOption ==
    /\ pc = "loop" /\ args # <<>>
    /\ iterations' = iterations + 1
    /\ UNCHANGED parseVars
    /\ ~IsHelp(Head(args))
    /\ IsLongOption(Head(args))
    /\ Commit(consumeToggleOrOption(substr(Head(args), 2),
                                    [BinderState EXCEPT !.args = Tail(args)]))
    /\ UNCHANGED <<command, commandSequence, tail, commandArgs, commandExtraArgs,
                   pendingParamDefinitions, helpCalls, executeCalls>>

\* One iteration whose token starts with a single "-".
Flags ==
    /\ pc = "loop" /\ args # <<>>
    /\ iterations' = iterations + 1
    /\ UNCHANGED parseVars
    /\ ~IsHelp(Head(args))
    /\ IsOption(Head(args)) /\ ~IsLongOption(Head(args))
    /\ Commit(consumeFlags(substr(Head(args), 1),
                           [BinderState EXCEPT !.args = Tail(args)]))
    /\ UNCHANGED <<command, commandSequence, tail, commandArgs, commandExtraArgs,
                   pendingParamDefinitions, helpCalls, executeCalls>>

\* One iteration whose token is positional: consumeArgument(arg).
Argument ==
    /\ pc = "loop" /\ args # <<>>
    /\ iterations' = iterations + 1
    /\ UNCHANGED parseVars
    /\ ~IsHelp(Head(args))
    /\ ~IsOption(Head(args))
    /\ args' = Tail(args)
    /\ IF pendingParamDefinitions # <<>>
       THEN LET definition == Head(pendingParamDefinitions)
            IN  /\ pendingParamDefinitions' = Tail(pendingParamDefinitions)
                /\ commandArgs' =
                       Append(commandArgs, castArgument(Head(args), definition.type))
                /\ UNCHANGED commandExtraArgs
       ELSE /\ commandExtraArgs' = Append(commandExtraArgs, Head(args))
            /\ UNCHANGED <<commandArgs, pendingParamDefinitions>>
    /\ UNCHANGED <<command, commandSequence, tail, commandOptions, requiredOptionMap,
                   pc, error, helpCalls, executeCalls>>

\* Mutant: the comparison off by one.
TooFewParameters_OffByOne(got, expecting) == got <= expecting

\* Mutant: the count is never checked.
TooFewParameters_Never(got, expecting) == FALSE

\* got < expecting
TooFewParameters(got, expecting) == got < expecting

\* Mutant: the missing names are never collected.
MissingOptionNames_None(keys) == <<>>

\* Mutant: only the first missing name is reported.
MissingOptionNames_First(keys) ==
    IF command.hasOptions /\ keys # <<>> THEN <<Head(keys)>> ELSE <<>>

\* requiredOptionMap && Object.keys(requiredOptionMap): the keys in insertion
\* order; nothing is missing when the command declares no options.
MissingOptionNames(keys) == IF command.hasOptions THEN keys ELSE <<>>

\* Variant: the defaults of all declared parameters, bound ones included.
PendingDefaults_All(pending) ==
    [i \in 1..Len(command.paramDefinitions) |->
        command.paramDefinitions[i].default]

\* The defaults of the parameters still pending, in order.
PendingDefaults(pending) == [i \in 1..Len(pending) |-> pending[i].default]

\* The arguments of command.execute(...commandArgs, ...executeMethodArgs).
ExecuteCall(boundArgs) ==
    [params |-> boundArgs,
     hasOptions |-> command.hasOptions,
     options |-> commandOptions,
     context |-> [cwd |-> Cwd, args |-> commandExtraArgs,
                  commands |-> commandSequence]]

\* The part of load after the loop: the two completeness checks, the
\* defaults, the context and command.execute.
Dispatch ==
    /\ pc = "loop" /\ args = <<>>
    /\ pc' = "done"
    /\ UNCHANGED <<iterations, parseVars>>
    /\ LET expecting == command.requiredParamsNumber
           got == Len(commandArgs)
           missingOptionNames == MissingOptionNames(requiredOptionMap)
       IN  IF TooFewParameters(got, expecting)
           THEN /\ error' = InsufficientPositionalArguments(expecting, got)
                /\ UNCHANGED <<commandArgs, executeCalls>>
           ELSE IF Len(missingOptionNames) # 0
           THEN /\ error' = MissingRequiredOptions(missingOptionNames)
                /\ UNCHANGED <<commandArgs, executeCalls>>
           ELSE /\ commandArgs' = commandArgs \o PendingDefaults(pendingParamDefinitions)
                /\ executeCalls' = Append(executeCalls, ExecuteCall(commandArgs'))
                /\ UNCHANGED error
    /\ UNCHANGED <<command, commandSequence, tail, args, commandExtraArgs,
                   commandOptions, requiredOptionMap, pendingParamDefinitions,
                   helpCalls>>

Next == Help \/ LongOption \/ Flags \/ Argument \/ Dispatch

Spec == Init /\ [][Next]_vars

\* ------------------------------------------------- runs through castArgument
\* Value tokens: spellings of false, numerals, words and the empty string.
CastTokens ==
    {<<"f", "a", "l", "s", "e">>, <<"F", "A", "L", "S", "E">>,
     <<"F", "a", "l", "s", "e">>, <<"f", "a", "l", "s", "e", "y">>,
     <<"0">>, <<"0", "0">>, <<"2">>, <<"1", "0">>, <<"0", "f">>,
     <<"y", "e", "s">>, <<"t", "r", "u", "e">>, <<>>}

CastTails == UNION {[1..n -> CastTokens \cup {TokOut}] : n \in 0..MaxCastTail}

\* Commands with one parameter `value` and one value option `out`, both of
\* the same type.
CastCommands ==
    {[hasOptions |-> TRUE,
      optionDefinitions |-> <<OptionDef(NameOut, "o", FALSE, FALSE, UndefinedV, t)>>,
      paramDefinitions |-> <<ParamDef("value", t, FALSE, UndefinedV)>>,
      requiredParamsNumber |->
          RequiredParamsNumber(<<ParamDef("value", t, FALSE, UndefinedV)>>)]
        : t \in Types}

\* The state after the set-up part of load for these commands and tails.
InitCast ==
    /\ command \in CastCommands
    /\ commandSequence \in CommandSequences
    /\ tail \in CastTails
    /\ args = tail
    /\ commandArgs = <<>>
    /\ commandExtraArgs = <<>>
    /\ commandOptions = OptionTables(command).commandOptions
    /\ requiredOptionMap = OptionTables(command).requiredOptionMap
    /\ pendingParamDefinitions = command.paramDefinitions
    /\ pc = "loop"
    /\ error = NoError
    /\ helpCalls = <<>>
    /\ executeCalls = <<>>
    /\ iterations = 0
    /\ ParseIdle

NextCast == LongOption \/ Argument \/ Dispatch

SpecCast == InitCast /\ [][NextCast]_vars

\* ------------------------------------------------------------ CLI.parse
\* The characters \w matches (and \d, which \w includes).
WordChars ==
    {Digits[k] : k \in 1..Len(Digits)} \cup {UpperCase[k] : k \in 1..Len(UpperCase)}
    \cup {LowerCase[k] : k \in 1..Len(LowerCase)} \cup {"_"}

\* Variant: a name may end with "-" ( /^[\w\d]+(?:-[\w\d]*)*$/ ).
ValidCommandName_TrailingDash(arg) ==
    /\ arg # <<>>
    /\ \A k \in 1..Len(arg) : arg[k] \in WordChars \cup {"-"}
    /\ arg[1] # "-"
    /\ \A k \in 1..(Len(arg) - 1) : ~(arg[k] = "-" /\ arg[k + 1] = "-")

\* validCommandNameRegex.test(arg): /^[\w\d]+(?:-[\w\d]+)*$/, one or more
\* non-empty runs of word characters joined by single "-".
ValidCommandName(arg) ==
    /\ arg # <<>>
    /\ \A k \in 1..Len(arg) : arg[k] \in WordChars \cup {"-"}
    /\ arg[1] # "-" /\ arg[Len(arg)] # "-"
    /\ \A k \in 1..(Len(arg) - 1) : ~(arg[k] = "-" /\ arg[k + 1] = "-")

\* const defaultEntry = 'default'
defaultEntry == <<"d", "e", "f", "a", "u", "l", "t">>

\* Names of the command tree and the tokens of argv.
TokFoo == <<"f", "o", "o">>
TokBar == <<"b", "a", "r">>
TokFooDash == <<"f", "o", "o", "-">>

\* A path below root is the sequence of its names; root is <<>>.
\* Path.join(searchPath, arg)
Join(path, name) == Append(path, name)

\* The module file path + '.js', and the directory path.
File(path) == [kind |-> "file", path |-> path]
Dir(path) == [kind |-> "dir", path |-> path]

\* FS.existsSync
existsSync(entry) == entry \in fs

\* Variant: the default entry of the directory is tried before the leaf.
possiblePaths_DefaultFirst(path) == <<Join(path, defaultEntry), path>>

\* possiblePaths = [searchPath + '.js', Path.join(searchPath, 'default.js')],
\* each without its extension.
possiblePaths(path) == <<path, Join(path, defaultEntry)>>

\* The indices of the possible paths that exist.
Existing(paths) == {k \in 1..Len(paths) : existsSync(File(paths[k]))}

\* The first possible path that exists (the inner for loop).
FirstExisting(paths) == paths[CHOOSE k \in Existing(paths) : \A m \in Existing(paths) : k <= m]

\* Variant: the search stops whenever no module matched.
StopsSearching_Always(path) == TRUE

\* if (!FS.existsSync(searchPath)) break;
StopsSearching(path) == ~existsSync(Dir(path))

\* Array.prototype.slice(start), start counted from 0
slice(seq, start) == SubSeq(seq, start + 1, Len(seq))

\* argv[n], n counted from 0
ArgvAt(n) == argv[n + 1]

\* The modules that may exist below root, each without its extension:
\* default.js, foo.js, foo/default.js, foo/bar.js, bar.js, and foo-.js,
\* whose name is no valid command name.
ModulePaths ==
    {<<defaultEntry>>, <<TokFoo>>, <<TokFoo, defaultEntry>>, <<TokFoo, TokBar>>,
     <<TokBar>>, <<TokFooDash>>}

\* Directories that may exist without any module of the model in them.
ExtraDirectories == {{}, {<<TokFoo>>}, {<<TokFoo>>, <<TokFoo, TokBar>>}}

\* The directories a set of modules lies in, root included.
ParentsOf(paths) ==
    {<<>>} \cup UNION {{SubSeq(path, 1, n) : n \in 0..(Len(path) - 1)} : path \in paths}

\* The entries that exist: the modules, their directories and the further
\* directories.
FileSystem(modules, dirs) ==
    {File(path) : path \in modules}
    \cup {Dir(path) : path \in ParentsOf(modules) \cup dirs}

FileSystems ==
    {FileSystem(modules, dirs) : modules \in SUBSET ModulePaths, dirs \in ExtraDirectories}

\* process.argv: the interpreter, the script, then the tokens.
ArgvLead == <<<<"n", "o", "d", "e">>, <<"c", "l", "i", "m", "e">>>>
ParseTokens == {TokFoo, TokBar, TokFooDash, TokF}
Argvs == {ArgvLead \o t : t \in UNION {[1..n -> ParseTokens] : n \in 0..MaxArgv}}

\* this.entry
Entry == <<"c", "l", "i", "m", "e">>

\* The command every module of the model exports: toggles force (flag f)
\* and verbose, and the parameter count.
ModuleCommand ==
    [hasOptions |-> TRUE,
     optionDefinitions |->
         <<OptionDef(NameForce, "f", FALSE, TRUE, UndefinedV, TypeBoolean),
           OptionDef(NameVerbose, NoFlag, FALSE, TRUE, UndefinedV, TypeBoolean)>>,
     paramDefinitions |-> <<ParamCount>>,
     requiredParamsNumber |-> RequiredParamsNumber(<<ParamCount>>)]

\* The state at the head of parse's for loop, before its first iteration.
InitParse ==
    /\ fs \in FileSystems
    /\ argv \in Argvs
    /\ parseIndex = 2
    /\ searchPath = <<>>
    /\ filename = Join(searchPath, defaultEntry)
    /\ argsIndex = 2
    /\ commandSequence = <<Entry>>
    /\ command = ModuleCommand
    /\ tail = <<>>
    /\ args = <<>>
    /\ commandArgs = <<>>
    /\ commandExtraArgs = <<>>
    /\ commandOptions = <<>>
    /\ requiredOptionMap = <<>>
    /\ pendingParamDefinitions = <<>>
    /\ pc = "parse"
    /\ error = NoError
    /\ helpCalls = <<>>
    /\ executeCalls = <<>>
    /\ iterations = 0

loadVars == <<command, tail, args, commandArgs, commandExtraArgs, commandOptions,
              requiredOptionMap, pendingParamDefinitions, error, helpCalls,
              executeCalls, iterations>>

\* An iteration of the for loop is about to run.
InLoop == pc = "parse" /\ parseIndex < Len(argv)

\* An iteration whose token is a valid name with an existing module:
\* the module is recorded and the loop continues.
ParseMatch ==
    /\ InLoop
    /\ LET arg == ArgvAt(parseIndex)
           joined == Join(searchPath, arg)
       IN  /\ ValidCommandName(arg)
           /\ Existing(possiblePaths(joined)) # {}
           /\ searchPath' = joined
           /\ filename' = FirstExisting(possiblePaths(joined))
           /\ argsIndex' = parseIndex + 1
           /\ commandSequence' = Append(commandSequence, arg)
    /\ parseIndex' = parseIndex + 1
    /\ UNCHANGED <<fs, argv, pc, loadVars>>

\* An iteration whose token is a valid name without a module but with a
\* directory: nothing is recorded and the loop continues below it.
ParseDescend ==
    /\ InLoop
    /\ LET arg == ArgvAt(parseIndex)
           joined == Join(searchPath, arg)
       IN  /\ ValidCommandName(arg)
           /\ Existing(possiblePaths(joined)) = {}
           /\ ~StopsSearching(joined)
           /\ searchPath' = joined
    /\ parseIndex' = parseIndex + 1
    /\ UNCHANGED <<fs, argv, filename, argsIndex, commandSequence, pc, loadVars>>

\* An iteration that leaves the loop by break: the token is no valid name,
\* or it has neither a module nor a directory.
ParseBreak ==
    /\ InLoop
    /\ LET arg == ArgvAt(parseIndex)
           joined == Join(searchPath, arg)
       IN  IF ValidCommandName(arg)
           THEN /\ Existing(possiblePaths(joined)) = {}
                /\ StopsSearching(joined)
                /\ searchPath' = joined
           ELSE UNCHANGED searchPath
    /\ pc' = "resolved"
    /\ UNCHANGED <<fs, argv, parseIndex, filename, argsIndex, commandSequence, loadVars>>

\* this.load(filename, commandSequence, argv.slice(argsIndex), cwd) and the
\* set-up part of load; require(filename) throws when the module is missing.
ParseLoad ==
    /\ pc = "resolved" \/ (pc = "parse" /\ parseIndex >= Len(argv))
    /\ tail' = slice(argv, argsIndex)
    /\ IF existsSync(File(filename))
       THEN /\ args' = tail'
            /\ commandOptions' = OptionTables(command).commandOptions
            /\ requiredOptionMap' = OptionTables(command).requiredOptionMap
            /\ pendingParamDefinitions' = command.paramDefinitions
            /\ pc' = "loop"
            /\ UNCHANGED error
       ELSE /\ error' = Err("ModuleNotFound")
            /\ pc' = "done"
            /\ UNCHANGED <<args, commandOptions, requiredOptionMap,
                           pendingParamDefinitions>>
    /\ UNCHANGED <<command, commandSequence, commandArgs, commandExtraArgs,
                   helpCalls, executeCalls, iterations, parseVars>>

NextParse ==
    ParseMatch \/ ParseDescend \/ ParseBreak \/ ParseLoad
    \/ Flags \/ Argument \/ Dispatch

SpecParse == InitParse /\ [][NextParse]_vars

\* ------------------------------------------------ vocabulary of the claims
Range(seq) == {seq[i] : i \in 1..Len(seq)}

Executed == Len(executeCalls)
Helped == Len(helpCalls)
Failed == error # NoError

\* The errors thrown by the option consumers, as opposed to the two
\* completeness checks after the loop.
OptionErrors ==
    {"TypeError", "UnknownOptionName", "UnknownOptionFlag", "MissingOptionValue",
     "OptionValueLooksLikeOption", "NonTerminalFlagTakesValue"}

RequiredOptionNames(cmd) ==
    {cmd.optionDefinitions[i].name :
        i \in {j \in 1..Len(cmd.optionDefinitions) : cmd.optionDefinitions[j].required}}

\* The command declares no required option and no required parameter.
ZeroRequired(cmd) ==
    RequiredOptionNames(cmd) = {} /\ cmd.requiredParamsNumber = 0

\* The number of positional values bound from tokens.
BoundFromTokens == Len(command.paramDefinitions) - Len(pendingParamDefinitions)

\* The three help requests: -h, -? and --help.
HelpTokens == {<<"-", "h">>, <<"-", "?">>, <<"-", "-", "h", "e", "l", "p">>}
IsHelpToken(arg) == arg \in HelpTokens
StartsWithDash(arg) == Len(arg) >= 1 /\ arg[1] = "-"
StartsWithTwoDashes(arg) == Len(arg) >= 2 /\ arg[1] = "-" /\ arg[2] = "-"

HasHelpToken(seq) == \E i \in 1..Len(seq) : IsHelpToken(seq[i])
OnlyPositional(seq) == \A i \in 1..Len(seq) : ~StartsWithDash(seq[i])

\* ------------------------------------------------------------------- C1
\* C1 as stated: for every argv tail, a command with zero required options
\* and zero required parameters ends without error and with execute invoked
\* exactly once.
C1_AsStated ==
    (pc = "done" /\ ZeroRequired(command)) => (~Failed /\ Executed = 1)

\* C1 amended: for a command with zero required options and zero required
\* parameters neither completeness check ever fails; execute is invoked
\* exactly once unless the loop met a help token or an option consumer threw,
\* and in particular for every tail of positional tokens only.
C1_ZeroRequiredDispatches ==
    (pc = "done" /\ ZeroRequired(command)) =>
        /\ error.kind \in OptionErrors \cup {"none"}
        /\ (~Failed /\ Helped = 0) => Executed = 1
        /\ OnlyPositional(tail) => (~Failed /\ Executed = 1)

C1_Witness ==
    /\ pc = "done" /\ ZeroRequired(command)
    /\ command.paramDefinitions # <<>>
    /\ \E i \in 1..Len(tail) : StartsWithDash(tail[i])
    /\ ~Failed /\ Executed = 1

\* ------------------------------------------------------------------- C2
\* C2: every iteration of the binding loop removes at least one token, so
\* the loop runs at most once per token of the tail; while load has neither
\* returned nor thrown exactly one of its branches applies (the code after
\* the loop, or one class of token); and it ends in exactly one of: execute
\* invoked once, help invoked once, an error; never both calls, and no call
\* after an error.
C2_OneBranch ==
    pc = "loop" /\ args # <<>> =>
        Cardinality({b \in {"help", "long", "flags", "argument"} :
            \/ b = "help" /\ IsHelp(Head(args))
            \/ b = "long" /\ ~IsHelp(Head(args)) /\ IsLongOption(Head(args))
            \/ b = "flags" /\ ~IsHelp(Head(args)) /\ IsOption(Head(args))
                           /\ ~IsLongOption(Head(args))
            \/ b = "argument" /\ ~IsOption(Head(args))}) = 1

C2_OneOutcome ==
    /\ pc = "loop" => (Executed = 0 /\ Helped = 0 /\ ~Failed)
    /\ pc = "done" =>
          \/ Executed = 1 /\ Helped = 0 /\ ~Failed
          \/ Executed = 0 /\ Helped = 1 /\ ~Failed
          \/ Executed = 0 /\ Helped = 0 /\ Failed

C2_Terminates ==
    /\ iterations <= Len(tail) - Len(args)
    /\ iterations <= Len(tail)
    /\ C2_OneBranch
    /\ C2_OneOutcome

C2_Witness ==
    /\ pc = "done" /\ Len(tail) = MaxTail
    /\ args = <<>> /\ Executed = 1

\* ------------------------------------------------------------------- C3
\* C3: whenever execute is invoked the token queue is empty, no required
\* option is pending, and at least requiredParamsNumber positional values
\* were bound from tokens.
C3_DispatchComplete ==
    Executed > 0 =>
        /\ args = <<>>
        /\ requiredOptionMap = <<>>
        /\ BoundFromTokens >= command.requiredParamsNumber
        /\ Len(executeCalls[1].params) - Len(pendingParamDefinitions)
               >= command.requiredParamsNumber

C3_Witness ==
    /\ Executed = 1
    /\ command.requiredParamsNumber > 0
    /\ RequiredOptionNames(command) # {}

\* ------------------------------------------------------------------- C4
\* The first help token of a sequence (0 if there is none).
FirstHelp(seq) ==
    IF HasHelpToken(seq)
    THEN CHOOSE i \in 1..Len(seq) :
             IsHelpToken(seq[i]) /\ \A j \in 1..(i - 1) : ~IsHelpToken(seq[j])
    ELSE 0

HelpedOnly == helpCalls = <<commandSequence>> /\ Executed = 0 /\ ~Failed

\* C4 as stated: a help token anywhere in the tail makes the run invoke help
\* with the command sequence, never execute, and raise no error, whatever
\* the other tokens are.
C4_AsStated ==
    (pc = "done" /\ HasHelpToken(tail)) => HelpedOnly

\* C4 amended: with a help token anywhere in the tail, execute is never
\* invoked and neither completeness check fails; help is invoked with the
\* command sequence, and no error raised, unless a token before the first
\* help token makes an option consumer throw (a value option immediately
\* before the help token does: OptionValueLooksLikeOption); in particular
\* help is invoked whenever only positional tokens precede the help token.
C4_HelpWhenReached ==
    (pc = "done" /\ HasHelpToken(tail)) =>
        /\ Executed = 0
        /\ error.kind \in OptionErrors \cup {"none"}
        /\ ~Failed => HelpedOnly
        /\ Failed => Helped = 0
        /\ OnlyPositional(SubSeq(tail, 1, FirstHelp(tail) - 1)) => HelpedOnly

C4_Witness ==
    /\ pc = "done" /\ HelpedOnly
    /\ FirstHelp(tail) = 3
    /\ StartsWithDash(tail[1]) /\ ~StartsWithDash(tail[2])
    /\ command.requiredParamsNumber > 0

\* ------------------------------------------------------------------- C5
\* The option definition is referenced by a token: by its long name, or by
\* its flag in a cluster.
RefersTo(arg, definition) ==
    /\ ~IsHelpToken(arg)
    /\ \/ /\ StartsWithTwoDashes(arg)
          /\ SubSeq(arg, 3, Len(arg)) = definition.name
       \/ /\ StartsWithDash(arg) /\ ~StartsWithTwoDashes(arg)
          /\ definition.flag # NoFlag
          /\ \E i \in 2..Len(arg) : arg[i] = definition.flag

ReferencedIn(seq, definition) == \E i \in 1..Len(seq) : RefersTo(seq[i], definition)

RequiredDefinitions(cmd) ==
    {cmd.optionDefinitions[i] :
        i \in {j \in 1..Len(cmd.optionDefinitions) : cmd.optionDefinitions[j].required}}

MissingNamed(name) ==
    error.kind = "MissingRequiredOptions" /\ name \in Range(error.names)

\* C5 as stated: a required option never referenced in the tail makes the
\* run fail with MissingRequiredOptions naming it; one referenced by its
\* long name or its flag is removed from the pending set and never named.
C5_AsStated ==
    pc = "done" =>
        \A d \in RequiredDefinitions(command) :
            /\ ~ReferencedIn(tail, d) => MissingNamed(d.name)
            /\ ReferencedIn(tail, d) =>
                  (d.name \notin Range(requiredOptionMap) /\ ~MissingNamed(d.name))

\* C5 amended: when the queue is exhausted without help and without an
\* option error, and enough positional values were bound, a required option
\* never referenced makes the run fail with MissingRequiredOptions naming
\* it, and one referenced by its long name or its flag is no longer pending
\* and is not named; in every run, no MissingRequiredOptions error names an
\* option the tail references.
C5_RequiredOptionLaw ==
    pc = "done" =>
        \A d \in RequiredDefinitions(command) :
            /\ (Helped = 0 /\ error.kind \in {"none", "MissingRequiredOptions"}) =>
                  /\ ~ReferencedIn(tail, d) => MissingNamed(d.name)
                  /\ ReferencedIn(tail, d) => d.name \notin Range(requiredOptionMap)
            /\ ReferencedIn(tail, d) => ~MissingNamed(d.name)

C5_Witness ==
    /\ pc = "done"
    /\ \E d \in RequiredDefinitions(command) :
          ReferencedIn(tail, d) /\ d.name \notin Range(requiredOptionMap)
    /\ \E d \in RequiredDefinitions(command) :
          ~ReferencedIn(tail, d) /\ MissingNamed(d.name)

\* ------------------------------------------------------------------- C6
\* C6: a MissingRequiredOptions error names exactly the required options
\* that no long-name token and no flag character of the tail referred to,
\* each once.
C6_ReportsAllMissing ==
    error.kind = "MissingRequiredOptions" =>
        /\ Range(error.names) =
              {d.name : d \in {e \in RequiredDefinitions(command) :
                                  ~ReferencedIn(tail, e)}}
        /\ Cardinality(Range(error.names)) = Len(error.names)
        /\ error.names # <<>>

C6_Witness ==
    /\ error.kind = "MissingRequiredOptions"
    /\ Len(error.names) = 2
    /\ tail # <<>>

\* ------------------------------------------------------------------- C7
\* C7: when the queue is exhausted without help or an earlier error, the run
\* fails with InsufficientPositionalArguments exactly when fewer positional
\* tokens were bound to parameters than requiredParamsNumber; the error
\* carries both numbers and execute is not invoked.
C7_InsufficientIff ==
    (pc = "done" /\ Helped = 0 /\ error.kind \notin OptionErrors) =>
        /\ error.kind = "InsufficientPositionalArguments"
              <=> BoundFromTokens < command.requiredParamsNumber
        /\ error.kind = "InsufficientPositionalArguments" =>
              /\ Executed = 0
              /\ error.expecting = command.requiredParamsNumber
              /\ error.got = BoundFromTokens
              /\ error.got = Len(commandArgs)

\* The spec's example: one required parameter, option force with flag f,
\* tail ["-f"]: expected 1, got 0.
C7_Witness ==
    /\ pc = "done" /\ tail = <<TokF>>
    /\ error = InsufficientPositionalArguments(1, 0)
    /\ Executed = 0

\* ------------------------------------------------- flag clusters (C8-C10)
\* The token at the head of the queue is a flag cluster of a command that
\* declares options.
IsCluster(arg) ==
    /\ StartsWithDash(arg) /\ ~StartsWithTwoDashes(arg) /\ ~IsHelpToken(arg)
    /\ command.hasOptions

\* Character i of the cluster token (i >= 2) maps to a toggle, or to a value
\* option.
MapsToToggle(arg, i) ==
    /\ arg[i] \in DOMAIN flagToNameMapping
    /\ optionDefinitionMap[flagToNameMapping[arg[i]]].toggle
MapsToValue(arg, i) ==
    /\ arg[i] \in DOMAIN flagToNameMapping
    /\ ~optionDefinitionMap[flagToNameMapping[arg[i]]].toggle

FlagDefinition(arg, i) == optionDefinitionMap[flagToNameMapping[arg[i]]]

\* All characters before character i map to toggles.
TogglesBefore(arg, i) == \A j \in 2..(i - 1) : MapsToToggle(arg, j)

\* The toggles of characters 2..i-1 are true in the options record opts.
TogglesSet(arg, i, opts) ==
    \A j \in 2..(i - 1) :
        MapsToToggle(arg, j) => opts[FlagDefinition(arg, j).name] = BoolV(TRUE)

LoopAt(arg) == pc = "loop" /\ args # <<>> /\ Head(args) = arg

\* A token that can serve as a value follows the head of the queue.
ValueFollows == Len(args) >= 2 /\ ~StartsWithDash(args[2])

\* The following token is removed from the queue, coerced by the type of the
\* definition and stored under its name, and the loop goes on.
StoresFollowing(definition) ==
    /\ Len(args) >= 2
    /\ args' = Tail(Tail(args))
    /\ commandOptions'[definition.name] = castArgument(args[2], definition.type)
    /\ error' = NoError /\ pc' = "loop"

\* ------------------------------------------------------------------- C8
\* C8 as stated: for a cluster whose last character maps to a value option
\* (the earlier ones being toggles) exactly one following token is removed
\* and stored as its value and the earlier toggles are set; and if any
\* character but the last maps to a value option the parse fails with
\* NonTerminalFlagTakesValue.
C8_AsStatedStep ==
    \A arg \in Tokens :
        (LoopAt(arg) /\ IsCluster(arg)) =>
            /\ (MapsToValue(arg, Len(arg)) /\ TogglesBefore(arg, Len(arg))) =>
                  /\ StoresFollowing(FlagDefinition(arg, Len(arg)))
                  /\ TogglesSet(arg, Len(arg), commandOptions')
            /\ (\E i \in 2..(Len(arg) - 1) : MapsToValue(arg, i)) =>
                  error'.kind = "NonTerminalFlagTakesValue"

C8_AsStated == [][C8_AsStatedStep]_vars

\* C8 amended: for a cluster whose last character maps to a value option and
\* whose earlier characters all map to toggles: if a following token exists
\* and does not start with "-", exactly that token is removed, coerced and
\* stored as the option's value and every earlier toggle is set to true;
\* otherwise the run fails, with at most that one token removed and nothing
\* stored.  If a character other than the last maps to a value option and
\* every character before it maps to a toggle, the parse fails with
\* NonTerminalFlagTakesValue, and execute is never invoked.
C8_ClusterStep ==
    \A arg \in Tokens :
        (LoopAt(arg) /\ IsCluster(arg)) =>
            /\ (MapsToValue(arg, Len(arg)) /\ TogglesBefore(arg, Len(arg))) =>
                  LET definition == FlagDefinition(arg, Len(arg))
                  IN  IF ValueFollows
                      THEN /\ StoresFollowing(definition)
                           /\ TogglesSet(arg, Len(arg), commandOptions')
                      ELSE /\ error'.kind \in {"MissingOptionValue",
                                               "OptionValueLooksLikeOption"}
                           /\ Len(args') >= Len(args) - 2
                           /\ commandOptions'[definition.name]
                                  = commandOptions[definition.name]
                           /\ pc' = "done" /\ executeCalls' = <<>>
            /\ \A i \in 2..(Len(arg) - 1) :
                  (MapsToValue(arg, i) /\ TogglesBefore(arg, i)) =>
                      /\ error'.kind = "NonTerminalFlagTakesValue"
                      /\ pc' = "done" /\ executeCalls' = <<>>

C8_FlagClusterValue ==
    /\ [][C8_ClusterStep]_vars
    /\ [](error.kind = "NonTerminalFlagTakesValue" => Executed = 0)

C8_Witness ==
    /\ Len(tail) >= 2 /\ tail[1] = TokFO /\ tail[2] = TokWidget
    /\ iterations = 1 /\ Len(args) = Len(tail) - 2
    /\ command.hasOptions /\ NameOut \in DOMAIN commandOptions
    /\ commandOptions[NameOut] = NaNV
    /\ commandOptions[NameForce] = BoolV(TRUE)

\* ------------------------------------------------------------------- C9
\* C9: processing a cluster whose characters all map to toggles sets every
\* referenced option to true and removes the cluster token only; no token is
\* consumed as a value, the other options keep their values, and the bound
\* positional list, the pending-parameter queue and the overflow list are
\* unchanged.
C9_ToggleStep ==
    \A arg \in Tokens :
        (LoopAt(arg) /\ IsCluster(arg) /\ TogglesBefore(arg, Len(arg) + 1)) =>
            /\ args' = Tail(args)
            /\ TogglesSet(arg, Len(arg) + 1, commandOptions')
            /\ \A name \in DOMAIN commandOptions :
                  (\A j \in 2..Len(arg) : FlagDefinition(arg, j).name # name) =>
                      commandOptions'[name] = commandOptions[name]
            /\ DOMAIN commandOptions' = DOMAIN commandOptions
            /\ UNCHANGED <<commandArgs, pendingParamDefinitions, commandExtraArgs>>
            /\ error' = NoError /\ pc' = "loop"

C9_ToggleCluster == [][C9_ToggleStep]_vars

C9_Witness ==
    /\ Len(tail) >= 2 /\ tail[1] = TokFV
    /\ iterations = 1 /\ args = Tail(tail) /\ pc = "loop"
    /\ command.hasOptions /\ NameOut \in DOMAIN commandOptions
    /\ commandOptions[NameForce] = BoolV(TRUE)
    /\ commandOptions[NameVerbose] = BoolV(TRUE)
    /\ commandOptions[NameOut] = DefaultOf(TypeNumber)

\* ------------------------------------------------------------------ C10
\* The head of the queue refers to a value option so that consumeOption is
\* called: by long name, or as the last flag of a cluster whose earlier
\* flags are toggles.
RefersToValueOption(arg) ==
    \/ /\ StartsWithTwoDashes(arg) /\ ~IsHelpToken(arg) /\ command.hasOptions
       /\ SubSeq(arg, 3, Len(arg)) \in DOMAIN optionDefinitionMap
       /\ ~optionDefinitionMap[SubSeq(arg, 3, Len(arg))].toggle
    \/ /\ IsCluster(arg) /\ Len(arg) >= 2
       /\ MapsToValue(arg, Len(arg)) /\ TogglesBefore(arg, Len(arg))

ValueOptionOf(arg) ==
    IF StartsWithTwoDashes(arg) THEN optionDefinitionMap[SubSeq(arg, 3, Len(arg))]
    ELSE FlagDefinition(arg, Len(arg))

\* C10: when a value option is referenced, by long name or as the last flag
\* of a cluster: with no token left the run fails with MissingOptionValue;
\* with a next token that starts with "-" it fails with
\* OptionValueLooksLikeOption; otherwise exactly the next token is removed,
\* coerced by the option's type and stored under its name.  After either
\* error execute is never invoked.
C10_ValueStep ==
    \A arg \in Tokens :
        (LoopAt(arg) /\ RefersToValueOption(arg)) =>
            IF Len(args) = 1
            THEN /\ error'.kind = "MissingOptionValue"
                 /\ pc' = "done" /\ executeCalls' = <<>>
            ELSE IF StartsWithDash(args[2])
            THEN /\ error'.kind = "OptionValueLooksLikeOption"
                 /\ pc' = "done" /\ executeCalls' = <<>>
            ELSE StoresFollowing(ValueOptionOf(arg))

C10_ValueOption ==
    /\ [][C10_ValueStep]_vars
    /\ [](error.kind \in {"MissingOptionValue", "OptionValueLooksLikeOption"}
              => Executed = 0)

C10_Witness ==
    /\ Len(tail) >= 2 /\ tail[1] = TokOut /\ tail[2] = TokWidget
    /\ iterations = 1 /\ Len(args) = Len(tail) - 2 /\ pc = "loop"
    /\ command.hasOptions /\ NameOut \in DOMAIN commandOptions
    /\ commandOptions[NameOut] = BoolV(TRUE)

\* ------------------------------------------------------------------ C11
DeclaredNames(cmd) ==
    {cmd.optionDefinitions[i].name : i \in 1..Len(cmd.optionDefinitions)}
DeclaredFlags(cmd) ==
    {cmd.optionDefinitions[i].flag : i \in 1..Len(cmd.optionDefinitions)} \ {NoFlag}

FailsWith(kind) == error'.kind = kind /\ pc' = "done" /\ executeCalls' = <<>>

\* C11 as stated: for every command, also one without option definitions, a
\* long-name token whose name is not declared fails with UnknownOptionName
\* and a flag cluster with a character that is no declared flag fails with
\* UnknownOptionFlag; execute is not invoked.
C11_AsStatedStep ==
    \A arg \in Tokens :
        (LoopAt(arg) /\ ~IsHelpToken(arg)) =>
            /\ (StartsWithTwoDashes(arg)
                  /\ SubSeq(arg, 3, Len(arg)) \notin DeclaredNames(command))
                  => FailsWith("UnknownOptionName")
            /\ (StartsWithDash(arg) /\ ~StartsWithTwoDashes(arg)
                  /\ \E i \in 2..Len(arg) : arg[i] \notin DeclaredFlags(command))
                  => FailsWith("UnknownOptionFlag")

C11_AsStated == [][C11_AsStatedStep]_vars

\* The same with the TypeError of a command without option definitions
\* accepted for the long-name case: what the code does.
C11_CodeStep ==
    \A arg \in Tokens :
        (LoopAt(arg) /\ ~IsHelpToken(arg)) =>
            /\ (StartsWithTwoDashes(arg)
                  /\ SubSeq(arg, 3, Len(arg)) \notin DeclaredNames(command))
                  => IF command.hasOptions
                     THEN FailsWith("UnknownOptionName")
                     ELSE FailsWith("TypeError")
            /\ (StartsWithDash(arg) /\ ~StartsWithTwoDashes(arg)
                  /\ \E i \in 2..Len(arg) : arg[i] \notin DeclaredFlags(command))
                  => FailsWith("UnknownOptionFlag")

C11_Code == [][C11_CodeStep]_vars


\* ------------------------------------------------------------------ C12
\* The positional tokens of a tail: the tokens that are neither option or
\* flag tokens nor the value following a reference to a value option.
RECURSIVE PositionalTokens(_)
PositionalTokens(seq) ==
    IF seq = <<>> THEN <<>>
    ELSE LET arg == Head(seq) IN
         IF StartsWithDash(arg)
         THEN IF RefersToValueOption(arg) /\ Len(seq) >= 2
              THEN PositionalTokens(Tail(Tail(seq)))
              ELSE PositionalTokens(Tail(seq))
         ELSE <<arg>> \o PositionalTokens(Tail(seq))

DeclaredParams == command.paramDefinitions

C12_WitnessDefault ==
    /\ Executed = 1
    /\ Len(DeclaredParams) = 2
    /\ Len(PositionalTokens(tail)) = 1

\* ------------------------------------------------------------------ C18
OptionDefinitionsOf(cmd) ==
    {cmd.optionDefinitions[i] : i \in 1..Len(cmd.optionDefinitions)}

\* Required value options that declare a default, as the test fixture's
\* `required: true, default: false`.
RequiredWithDefault(cmd) ==
    {d \in RequiredDefinitions(cmd) : ~d.toggle /\ d.default # UndefinedV}

AtStart == pc = "loop" /\ iterations = 0

\* Before the first token: every value option holds its declared default,
\* every toggle false, and every required option is pending whatever its
\* default.
SeededAtStart ==
    AtStart =>
        \A d \in OptionDefinitionsOf(command) :
            /\ commandOptions[d.name] = IF d.toggle THEN BoolV(FALSE) ELSE d.default
            /\ d.required => d.name \in Range(requiredOptionMap)

\* C18 as stated: options are seeded with their defaults and every required
\* option is pending regardless of its default; every tail that never
\* references a required option with a default fails with
\* MissingRequiredOptions, and execute is not invoked.
C18_AsStated ==
    /\ SeededAtStart
    /\ pc = "done" =>
          \A d \in RequiredWithDefault(command) :
              ~ReferencedIn(tail, d) => (MissingNamed(d.name) /\ Executed = 0)

\* C18 amended: the same seeding; a tail that never references a required
\* option with a default never reaches execute, and fails with
\* MissingRequiredOptions naming the option unless a help token, an option
\* error or too few positional values ended the run first.
C18_DefaultNeverSatisfies ==
    /\ SeededAtStart
    /\ pc = "done" =>
          \A d \in RequiredWithDefault(command) :
              ~ReferencedIn(tail, d) =>
                  /\ Executed = 0
                  /\ (Helped = 0 /\ error.kind \in {"none", "MissingRequiredOptions"})
                        => MissingNamed(d.name)

\* The fixture's option, never referenced, reported missing after a tail
\* that was consumed whole.
C18_Witness ==
    /\ pc = "done" /\ tail # <<>>
    /\ \E d \in RequiredWithDefault(command) :
          /\ d.type = TypeBoolean /\ d.default = BoolV(FALSE)
          /\ ~ReferencedIn(tail, d)
          /\ MissingNamed(d.name)

\* ------------------------------------------------------------------ C19
\* The value the set-up of load gives an option.
SeededValue(d) == IF d.toggle THEN BoolV(FALSE) ELSE d.default

\* Token i of the tail refers to value option d and token i + 1 is its value.
ValueGivenAt(i, d) ==
    /\ i \in 1..(Len(tail) - 1)
    /\ RefersTo(tail[i], d)
    /\ ~StartsWithDash(tail[i + 1])

\* C19: whenever execute is invoked the options record has exactly the
\* declared option names as keys; every required option holds a value
\* assigned from the tail, true for a toggle and the coerced following token
\* for a value option, and is no longer pending; every option the tail never
\* references holds its seeded value.
C19_RecordAtExecute ==
    (Executed = 1 /\ command.hasOptions) =>
        LET options == executeCalls[1].options IN
        /\ DOMAIN options = DeclaredNames(command)
        /\ requiredOptionMap = <<>>
        /\ \A d \in OptionDefinitionsOf(command) :
              /\ (d.required /\ d.toggle) =>
                    (ReferencedIn(tail, d) /\ options[d.name] = BoolV(TRUE))
              /\ (d.required /\ ~d.toggle) =>
                    \E i \in 1..Len(tail) :
                        /\ ValueGivenAt(i, d)
                        /\ options[d.name] = castArgument(tail[i + 1], d.type)
              /\ ~ReferencedIn(tail, d) => options[d.name] = SeededValue(d)

\* The step that refers to a required value option removes it from the
\* pending set whether or not a value follows.
C19_SatisfiedBeforeValue ==
    \A arg \in Tokens :
        (LoopAt(arg) /\ RefersToValueOption(arg) /\ ValueOptionOf(arg).required) =>
            ValueOptionOf(arg).name \notin Range(requiredOptionMap')

\* C19: the options record at execute and the early removal from the pending
\* set, together.
C19_OptionsRecord == []C19_RecordAtExecute /\ [][C19_SatisfiedBeforeValue]_vars

\* A dispatch with a required toggle and a required value option, both
\* given in the tail, and a third option never referenced.
C19_Witness ==
    /\ Executed = 1 /\ command.hasOptions
    /\ \E d \in OptionDefinitionsOf(command) :
          d.required /\ d.toggle /\ ReferencedIn(tail, d)
    /\ \E d \in OptionDefinitionsOf(command) :
          d.required /\ ~d.toggle /\ d.type = TypeBoolean /\ ReferencedIn(tail, d)
    /\ \E d \in OptionDefinitionsOf(command) : ~ReferencedIn(tail, d)

\* ------------------------------------------------------------------ C20
\* The positions of the declared parameters without a default.
WithoutDefault(params) == {i \in 1..Len(params) : ~params[i].hasDefault}

\* No parameter without a default is declared after one with a default.
RequiredFirst(params) ==
    \A i \in WithoutDefault(params) : \A j \in 1..(i - 1) : ~params[j].hasDefault

\* Parameter i received the coerced i-th positional token of the tail.
BoundFromToken(i) ==
    /\ i <= Len(PositionalTokens(tail))
    /\ executeCalls[1].params[i] =
           castArgument(PositionalTokens(tail)[i], DeclaredParams[i].type)

\* C20 as stated: whenever execute is invoked, every declared parameter
\* without a default was bound from a positional token of the tail, in any
\* declaration order, the required count being the number of parameters
\* without a default.
C20_AsStated ==
    Executed = 1 =>
        /\ command.requiredParamsNumber = Cardinality(WithoutDefault(DeclaredParams))
        /\ \A i \in WithoutDefault(DeclaredParams) : BoundFromToken(i)

\* The same for the commands whose parameters without a default all come
\* first: what the count check of load ensures.
C20_RequiredFirst ==
    (Executed = 1 /\ RequiredFirst(DeclaredParams)) =>
        \A i \in WithoutDefault(DeclaredParams) : BoundFromToken(i)

\* ------------------------------------------------------------------ C13
\* The token is "false" in any mix of upper and lower case.
EqualsFalseIgnoringCase(arg) ==
    /\ Len(arg) = 5
    /\ arg[1] \in {"f", "F"} /\ arg[2] \in {"a", "A"} /\ arg[3] \in {"l", "L"}
    /\ arg[4] \in {"s", "S"} /\ arg[5] \in {"e", "E"}

DecimalDigits == {"0", "1", "2", "3", "4", "5", "6", "7", "8", "9"}

\* The token parses as a number: it is empty (the number 0) or a decimal
\* numeral; the number is nonzero when some digit is not "0".
ParsesAsNumber(arg) == \A i \in 1..Len(arg) : arg[i] \in DecimalDigits
ParsedNonzero(arg) == \E i \in 1..Len(arg) : arg[i] # "0"

\* The Boolean the claim assigns to a token.
BooleanOf(arg) ==
    IF EqualsFalseIgnoringCase(arg) THEN FALSE
    ELSE IF ~ParsesAsNumber(arg) THEN TRUE
    ELSE ParsedNonzero(arg)

BooleanParam ==
    pendingParamDefinitions # <<>> /\ Head(pendingParamDefinitions).type = TypeBoolean

BooleanOut ==
    NameOut \in DOMAIN optionDefinitionMap /\ optionDefinitionMap[NameOut].type = TypeBoolean

\* A positional token bound to a Boolean parameter, and a value token stored
\* under a Boolean option, become the Boolean the claim assigns to them.
C13_CastStep ==
    /\ \A arg \in CastTokens :
          (LoopAt(arg) /\ BooleanParam) =>
              commandArgs' = Append(commandArgs, BoolV(BooleanOf(arg)))
    /\ (LoopAt(TokOut) /\ BooleanOut /\ ValueFollows) =>
              commandOptions'[NameOut] = BoolV(BooleanOf(args[2]))

\* The examples of the claim.
C13_Examples ==
    /\ castArgument(<<"f", "a", "l", "s", "e">>, TypeBoolean) = BoolV(FALSE)
    /\ castArgument(<<"F", "A", "L", "S", "E">>, TypeBoolean) = BoolV(FALSE)
    /\ castArgument(<<"0">>, TypeBoolean) = BoolV(FALSE)
    /\ castArgument(<<"2">>, TypeBoolean) = BoolV(TRUE)
    /\ castArgument(<<"y", "e", "s">>, TypeBoolean) = BoolV(TRUE)

\* C13: Boolean coercion of every token: false if the token equals "false"
\* ignoring case; otherwise true if the token does not parse as a number;
\* otherwise true exactly when the parsed number is nonzero.  "false" and
\* "FALSE" give false, "0" false, "2" true, "yes" true.
C13_BooleanCoercion == [][C13_CastStep]_vars /\ []C13_Examples

\* "FALSE" was bound to a Boolean parameter as false and "2" stored under a
\* Boolean option as true, and execute received both.
C13_Witness ==
    /\ Executed = 1
    /\ tail = <<<<"F", "A", "L", "S", "E">>, TokOut, <<"2">>>>
    /\ executeCalls[1].params = <<BoolV(FALSE)>>
    /\ executeCalls[1].options[NameOut] = BoolV(TRUE)

\* ----------------------------------------------- vocabulary of resolution
\* The command-name grammar: word characters, where every "-" stands
\* between two word characters.
IsCommandName(arg) ==
    /\ arg # <<>>
    /\ \A k \in 1..Len(arg) :
          IF arg[k] = "-"
          THEN /\ k > 1 /\ k < Len(arg)
               /\ arg[k - 1] \in WordChars /\ arg[k + 1] \in WordChars
          ELSE arg[k] \in WordChars

\* At location loc the tree holds the leaf module name.js, the module
\* name/default.js, the directory name.
HasLeaf(loc, name) == File(Append(loc, name)) \in fs
HasDefault(loc, name) == File(Append(Append(loc, name), defaultEntry)) \in fs
HasDirectory(loc, name) == Dir(Append(loc, name)) \in fs

\* The tokens of argv from index n (counted from 0) onward.
TokensFrom(n) == [m \in 1..(Len(argv) - n) |-> argv[n + m]]

Resolving == pc = "parse"
Resolved == pc # "parse"

\* ------------------------------------------------------------------ C14
\* C14: at a location where both the leaf module X and the default module
\* of the directory X/ exist, a token X that is a command name resolves to
\* the leaf X and not to X/default, is appended to commandPath, and
\* argsStartIndex moves past it.
C14_LeafStep ==
    (Resolving /\ parseIndex < Len(argv)) =>
        LET X == argv[parseIndex + 1] IN
        (IsCommandName(X) /\ HasLeaf(searchPath, X) /\ HasDefault(searchPath, X)) =>
            /\ filename' = Append(searchPath, X)
            /\ filename' # Append(Append(searchPath, X), defaultEntry)
            /\ commandSequence' = Append(commandSequence, X)
            /\ argsIndex' = parseIndex + 1

C14_LeafPreference == [][C14_LeafStep]_vars

\* foo resolved to foo.js although foo/default.js exists, below a location
\* reached by an earlier token or at root.
C14_Witness ==
    /\ Resolved
    /\ Len(commandSequence) >= 2
    /\ LET X == commandSequence[Len(commandSequence)] IN
          /\ filename = Append(SubSeq(filename, 1, Len(filename) - 1), X)
          /\ File(filename) \in fs
          /\ File(Append(filename, defaultEntry)) \in fs
          /\ argsIndex >= 3

\* ------------------------------------------------------------------ C15
\* The index of the first token from n onward, the search being at loc,
\* that is no command name or has neither module nor directory at the
\* location the search has reached; the length of argv when there is none.
RECURSIVE StopIndex(_, _)
StopIndex(n, loc) ==
    IF n >= Len(argv) THEN Len(argv)
    ELSE LET X == argv[n + 1] IN
         IF \/ ~IsCommandName(X)
            \/ ~(HasLeaf(loc, X) \/ HasDefault(loc, X) \/ HasDirectory(loc, X))
         THEN n
         ELSE StopIndex(n + 1, Append(loc, X))

FirstStop == StopIndex(2, <<>>)

RootDefault == <<defaultEntry>>

\* Resolution never goes past k and what load receives is the tokens from
\* argsStartIndex onward, for the last module matched.
C15_StopsAtFirst ==
    /\ argsIndex <= FirstStop
    /\ Len(commandSequence) <= FirstStop - 1
    /\ Resolving => parseIndex <= FirstStop
    /\ Len(commandSequence) = 1 => filename = RootDefault
    /\ pc \in {"loop", "done"} => tail = TokensFrom(argsIndex)

\* From k on no step appends to commandPath or changes the resolved module.
C15_FrozenStep ==
    (Resolved \/ parseIndex >= FirstStop) =>
        /\ commandSequence' = commandSequence
        /\ filename' = filename
        /\ argsIndex' = argsIndex

\* C15: with k the index of the first token that is no command name or has,
\* at the current search location, neither a candidate module nor a
\* directory: argsStartIndex <= k, no token at an index >= k is appended to
\* commandPath or changes the resolved module, and the tokens from
\* argsStartIndex onward are passed in order as the tail of the last module
\* matched, the root default when none matched.
C15_StopsAtK == []C15_StopsAtFirst /\ [][C15_FrozenStep]_vars

\* A run that matched a token, met k before the end of argv and passed the
\* rest, more than the token at k, to load.
C15_Witness ==
    /\ pc \in {"loop", "done"}
    /\ FirstStop < Len(argv) - 1
    /\ argsIndex = FirstStop /\ argsIndex > 2
    /\ Len(tail) >= 2

\* ------------------------------------------------------------------ C16
\* At the current location the token X has a directory but no module.
DirectoryOnly(loc, X) ==
    /\ IsCommandName(X)
    /\ ~HasLeaf(loc, X) /\ ~HasDefault(loc, X)
    /\ HasDirectory(loc, X)

\* As StopIndex, a token with a directory but no module counting as a stop.
RECURSIVE StrictStopIndex(_, _)
StrictStopIndex(n, loc) ==
    IF n >= Len(argv) THEN Len(argv)
    ELSE LET X == argv[n + 1] IN
         IF ~IsCommandName(X) \/ ~(HasLeaf(loc, X) \/ HasDefault(loc, X))
         THEN n
         ELSE StrictStopIndex(n + 1, Append(loc, X))

FirstStrictStop == StrictStopIndex(2, <<>>)

\* C16 as stated: a token that is a command name with a directory but
\* neither candidate module stops resolution: the result is what was
\* recorded before it, and no later token changes the resolved module or is
\* appended to commandPath.
C16_AsStated ==
    /\ argsIndex <= FirstStrictStop
    /\ Len(commandSequence) <= FirstStrictStop - 1

\* C16 amended: such a token does not stop resolution.  Nothing is recorded
\* for it and the search goes on below its directory, where a later token
\* with a module becomes the resolved module, is appended to commandPath and
\* moves argsStartIndex past it; the result is the one recorded before only
\* when no later token has a module.
C16_DescendStep ==
    (Resolving /\ parseIndex < Len(argv)) =>
        LET X == argv[parseIndex + 1] IN
        /\ DirectoryOnly(searchPath, X) =>
              /\ pc' = "parse" /\ parseIndex' = parseIndex + 1
              /\ searchPath' = Append(searchPath, X)
              /\ filename' = filename
              /\ commandSequence' = commandSequence
              /\ argsIndex' = argsIndex
        /\ (IsCommandName(X) /\ (HasLeaf(searchPath, X) \/ HasDefault(searchPath, X))) =>
              /\ filename' \in {Append(searchPath, X),
                                Append(Append(searchPath, X), defaultEntry)}
              /\ commandSequence' = Append(commandSequence, X)
              /\ argsIndex' = parseIndex + 1

C16_Descends == [][C16_DescendStep]_vars

\* foo has a directory but no module, and bar below it was resolved.
C16_Witness ==
    /\ Resolved
    /\ DirectoryOnly(<<>>, TokFoo)
    /\ filename = <<TokFoo, TokBar>>
    /\ argsIndex = 4

\* ------------------------------------------------------------------ C17
\* The tokens argv[2 .. argsStartIndex - 1].
TokensBeforeArgs == SubSeq(argv, 3, argsIndex)

\* C17 as stated: after resolution commandPath is the entry name followed
\* by exactly the tokens argv[2 .. argsStartIndex - 1], so every token before
\* argsStartIndex is recorded, and the resolved module lies at the path
\* those tokens form under root.
C17_AsStated ==
    Resolved =>
        /\ commandSequence = <<Entry>> \o TokensBeforeArgs
        /\ Len(commandSequence) = argsIndex - 1
        /\ filename \in {TokensBeforeArgs, Append(TokensBeforeArgs, defaultEntry)}

\* The part of it that holds: the resolved module lies at the path of the
\* tokens before argsStartIndex, and commandPath is a subsequence of them.
C17_ModuleAtPath ==
    Resolved =>
        /\ filename \in {TokensBeforeArgs, Append(TokensBeforeArgs, defaultEntry)}
        /\ Len(commandSequence) <= argsIndex - 1

=============================================================================
